---- MODULE Spec2Model ----
(***************************************************************************)
(* Qualiwo shopping assistant: the provider chain, the agent loop, the     *)
(* session store and the two-pass response resolution of chat_endpoint.    *)
(***************************************************************************)
EXTENDS Integers, Sequences, FiniteSets, TLC

VARIABLES
    env,            \* os.environ: credential slot -> key, "" when unset
    ctor_failed,    \* the handles whose constructor raised during the build
    llm_instances,  \* the handles built, in chain order
    build,          \* "start", "ready", or "failed" (the RuntimeError at import)
    messages,       \* result["messages"]: the transcript handed to resolution
    tentative,      \* agent_output / ui_action_type / ui_data after the JSON pass
    response,       \* the ChatResponse, or the HTTP error, of chat_endpoint
    stage,          \* position of the request
    request,        \* the ChatRequest being served: session_id and message
    invocation,     \* the handles the last llm_with_tools.invoke called, with outcomes
    threads,        \* MemorySaver: thread_id -> checkpointed messages
    db,             \* Database.db is not None
    store,          \* the carts and user collections and their in-memory fallbacks
    n_requests,     \* chat requests received so far
    op,             \* the last operation run on the session store alone, with its result
    n_ops,          \* operations run on the session store alone so far
    llm_input,      \* the messages the last agent_node handed to llm_with_tools.invoke
    tools_nd,       \* the outcomes of the outside calls of the last tools step
    tasks           \* the tool coroutines of a tools step that runs them concurrently

chainVars == <<env, ctor_failed, llm_instances, build>>
chatVars == <<messages, tentative, response, stage>>
sessVars == <<request, invocation, threads, db, store, n_requests>>
opVars == <<op, n_ops>>
runVars == <<llm_input, tools_nd, tasks>>
vars == <<chainVars, chatVars, sessVars, opVars, runVars>>

(***************************************************************************)
(* JSON values.  Every value is a record [t, v]: t its Python type, v its  *)
(* content.  A string is a sequence of tokens, a dict a function from field*)
(* names to values.                                                        *)
(***************************************************************************)
JNull == [t |-> "null", v |-> <<>>]
JAbsent == [t |-> "absent", v |-> <<>>]
JStr(s) == [t |-> "str", v |-> s]
JNum(n) == [t |-> "num", v |-> <<n>>]
JList(l) == [t |-> "list", v |-> l]
JDict(d) == [t |-> "dict", v |-> d]

\* A token of a text: a run of characters the resolution treats as a unit.
Tok(k, w, j) == [k |-> k, w |-> w, j |-> j]
Ws == Tok("ws", " ", JNull)
Fence == Tok("fence", "FENCE", JNull)
Word(w) == Tok("word", w, JNull)
Doc(j) == Tok("doc", "", j)

\* A Python str literal such as "NONE".
Lit(w) == JStr(<<Word(w)>>)

\* Python truthiness, as used by if x and by and x.
Truthy(j) ==
    CASE j.t \in {"null", "absent"} -> FALSE
      [] j.t \in {"str", "list"} -> Len(j.v) > 0
      [] j.t = "dict" -> DOMAIN j.v # {}
      [] j.t = "num" -> j.v # <<0>>
      [] OTHER -> TRUE

\* "k" in d, for a parsed object d.
HasKey(d, k) == k \in DOMAIN d.v /\ d.v[k].t # "absent"

(***************************************************************************)
(* str operations of the JSON pass (app.py 173-180).                       *)
(***************************************************************************)
RECURSIVE LStrip(_)
LStrip(s) == IF s # <<>> /\ Head(s).k = "ws" THEN LStrip(Tail(s)) ELSE s

RECURSIVE RStrip(_)
RStrip(s) ==
    IF s # <<>> /\ s[Len(s)].k = "ws" THEN RStrip(SubSeq(s, 1, Len(s) - 1)) ELSE s

\* str.strip()
Strip(s) == RStrip(LStrip(s))

\* s.startswith of the json code fence (app.py 174)
StartsWithFenceJson(s) ==
    Len(s) >= 2 /\ s[1].k = "fence" /\ s[2].k = "word" /\ s[2].w = "json"

\* s.startswith of a bare code fence (app.py 176)
StartsWithFence(s) == Len(s) >= 1 /\ s[1].k = "fence"

\* s.split(fence)[0] (app.py 175, 177)
RECURSIVE BeforeFence(_)
BeforeFence(s) ==
    IF s = <<>> \/ Head(s).k = "fence" THEN <<>>
    ELSE <<Head(s)>> \o BeforeFence(Tail(s))

\* cleaned_output of app.py 173-177
CleanedOutput(agent_output) ==
    LET c == Strip(agent_output) IN
    IF StartsWithFenceJson(c) THEN Strip(BeforeFence(SubSeq(c, 3, Len(c))))
    ELSE IF StartsWithFence(c) THEN Strip(BeforeFence(SubSeq(c, 2, Len(c))))
    ELSE c

\* json.loads: succeeds on exactly one JSON document, surrounding whitespace
\* allowed; anything else raises.
JsonLoadsOk(s) == LET c == Strip(s) IN Len(c) = 1 /\ c[1].k = "doc"
JsonLoads(s) == Strip(s)[1].j

(***************************************************************************)
(* Transcript messages.                                                    *)
(***************************************************************************)
HumanMessage(content) ==
    [role |-> "human", content |-> content, tool_calls |-> <<>>, tool_call_id |-> 0]
AIMessage(content, tool_calls) ==
    [role |-> "ai", content |-> content, tool_calls |-> tool_calls, tool_call_id |-> 0]
ToolMessage(content, id) ==
    [role |-> "tool", content |-> content, tool_calls |-> <<>>, tool_call_id |-> id]
ToolCall(id, name, args) == [id |-> id, name |-> name, args |-> args]
\* SystemMessage(content=SYSTEM_PROMPT)
SystemMessage ==
    [role |-> "system", content |-> <<Word("SYSTEM_PROMPT")>>, tool_calls |-> <<>>,
     tool_call_id |-> 0]

\* ToolNode serialises a dict result to one JSON document.
Dumps(payload) == <<Doc(payload)>>

(***************************************************************************)
(* Pass 1: the JSON the model reports about itself (app.py 159-197).       *)
(***************************************************************************)
\* agent_output of app.py 160-163
LastContent(msgs) == IF msgs = <<>> THEN <<>> ELSE msgs[Len(msgs)].content

Pass1MutKeepNone(raw) ==
    LET c == CleanedOutput(raw)
        dflt == [agent_output |-> JStr(raw), ui_action_type |-> Lit("NONE"),
                 ui_data |-> JNull]
    IN  IF ~JsonLoadsOk(c) THEN dflt
        ELSE LET parsed_json == JsonLoads(c) IN
             IF parsed_json.t # "dict" THEN dflt
             ELSE [agent_output |->
                       IF HasKey(parsed_json, "message")
                       THEN parsed_json.v["message"] ELSE JStr(raw),
                   ui_action_type |->
                       IF HasKey(parsed_json, "ui_action")
                       THEN parsed_json.v["ui_action"] ELSE Lit("NONE"),
                   ui_data |->
                       IF HasKey(parsed_json, "data")
                       THEN parsed_json.v["data"] ELSE JNull]

Pass1MutRaise(raw) ==
    LET c == CleanedOutput(raw) IN
    IF ~JsonLoadsOk(c)
    THEN [agent_output |-> JNull, ui_action_type |-> Lit("NONE"), ui_data |-> JNull]
    ELSE Pass1MutKeepNone(raw)

Pass1(raw) ==
    LET c == CleanedOutput(raw)
        dflt == [agent_output |-> JStr(raw), ui_action_type |-> Lit("NONE"),
                 ui_data |-> JNull]
    IN  IF ~JsonLoadsOk(c) THEN dflt
        ELSE LET parsed_json == JsonLoads(c) IN
             IF parsed_json.t # "dict" THEN dflt
             ELSE [agent_output |->
                       IF HasKey(parsed_json, "message")
                       THEN parsed_json.v["message"] ELSE JStr(raw),
                   ui_action_type |->
                       IF HasKey(parsed_json, "ui_action")
                          /\ parsed_json.v["ui_action"] # Lit("NONE")
                       THEN parsed_json.v["ui_action"] ELSE Lit("NONE"),
                   ui_data |->
                       IF HasKey(parsed_json, "data") /\ Truthy(parsed_json.v["data"])
                       THEN parsed_json.v["data"] ELSE JNull]

(***************************************************************************)
(* Pass 2: the tool calls of the transcript (app.py 199-268).              *)
(***************************************************************************)
\* Every tool call of the transcript, in transcript order (app.py 207-209).
RECURSIVE AllToolCalls(_)
AllToolCalls(msgs) ==
    IF msgs = <<>> THEN <<>>
    ELSE (IF Head(msgs).role = "ai" THEN Head(msgs).tool_calls ELSE <<>>)
         \o AllToolCalls(Tail(msgs))

\* tool_calls_map of app.py 204-213: call id -> tool name, a later call with the
\* same id replacing an earlier one.
RECURSIVE ToolCallsMap(_)
ToolCallsMap(calls) ==
    IF calls = <<>> THEN <<>>
    ELSE LET rest == ToolCallsMap(SubSeq(calls, 1, Len(calls) - 1))
             c == calls[Len(calls)]
         IN  IF c.id = 0 THEN rest
             ELSE [x \in DOMAIN rest \cup {c.id} |-> IF x = c.id THEN c.name ELSE rest[x]]

\* tool_calls_map.get(id)
MapGet(map, id) == IF id \in DOMAIN map THEN map[id] ELSE ""

\* The if/elif chain of app.py 215-222.
ActionTools ==
    {"product_search_tool", "show_cart_tool", "collect_user_info_tool",
     "process_payment_tool"}
ActionOf(tool_name) ==
    CASE tool_name = "product_search_tool" -> "RENDER_PRODUCTS"
      [] tool_name = "show_cart_tool" -> "RENDER_CART"
      [] tool_name = "collect_user_info_tool" -> "REQUEST_INFO"
      [] tool_name = "process_payment_tool" -> "RENDER_PAYMENT"

RECURSIVE Pass2ActionMutFirst(_, _)
Pass2ActionMutFirst(calls, ui_action_type) ==
    IF calls = <<>> THEN ui_action_type
    ELSE IF Head(calls).name \in ActionTools THEN Lit(ActionOf(Head(calls).name))
         ELSE Pass2ActionMutFirst(Tail(calls), ui_action_type)

\* ui_action_type after the loop of app.py 207-222.
RECURSIVE Pass2Action(_, _)
Pass2Action(calls, ui_action_type) ==
    IF calls = <<>> THEN ui_action_type
    ELSE Pass2Action(Tail(calls),
                     IF Head(calls).name \in ActionTools
                     THEN Lit(ActionOf(Head(calls).name)) ELSE ui_action_type)

\* data of app.py 231-237: the content, parsed when it is a JSON string.
Decode(content) == IF JsonLoadsOk(content) THEN JsonLoads(content) ELSE JStr(content)

\* ui_data after one ToolMessage (app.py 226-268).
DataAfter(m, map, ui_data) ==
    LET tool_name == MapGet(map, m.tool_call_id)
        data == Decode(m.content)
    IN  IF m.role # "tool" THEN ui_data
        ELSE IF tool_name = "product_search_tool"
             THEN (IF data.t = "dict" /\ HasKey(data, "items")
                   THEN data.v["items"] ELSE ui_data)
        ELSE IF tool_name \in {"show_cart_tool", "process_payment_tool"} THEN data
        ELSE ui_data

RECURSIVE Pass2DataMutFirst(_, _, _)
Pass2DataMutFirst(msgs, map, ui_data) ==
    IF msgs = <<>> THEN ui_data
    ELSE DataAfter(Head(msgs), map, Pass2DataMutFirst(Tail(msgs), map, ui_data))

\* ui_data after the loop of app.py 225-268.
RECURSIVE Pass2Data(_, _, _)
Pass2Data(msgs, map, ui_data) ==
    IF msgs = <<>> THEN ui_data
    ELSE Pass2Data(Tail(msgs), map, DataAfter(Head(msgs), map, ui_data))

(***************************************************************************)
(* The response (app.py 270-285).                                          *)
(***************************************************************************)
HttpError(code) ==
    [status |-> code, message |-> JNull, ui_action |-> JNull, data |-> JNull]

\* ChatResponse(message: str, ui_action=UIAction(type: str, data)): the pydantic
\* models reject a message or a type that is no str, and the handler of
\* app.py 281-285 turns the rejection into a 500.
ChatResponse(agent_output, ui_action_type, ui_data) ==
    IF agent_output.t = "str" /\ ui_action_type.t = "str"
    THEN [status |-> 200, message |-> agent_output, ui_action |-> ui_action_type,
          data |-> ui_data]
    ELSE HttpError(500)

\* app.py 159-277 on the loop's result.
ResolveResponse(msgs) ==
    LET p1 == Pass1(LastContent(msgs))
        calls == AllToolCalls(msgs)
    IN  ChatResponse(p1.agent_output,
                     Pass2Action(calls, p1.ui_action_type),
                     Pass2Data(msgs, ToolCallsMap(calls), p1.ui_data))

NoResponse == HttpError(0)
NoTentative == [agent_output |-> JNull, ui_action_type |-> JNull, ui_data |-> JNull]

(***************************************************************************)
(* Tool results, as the return statements of tools.py build them.          *)
(***************************************************************************)
JTrue == [t |-> "bool", v |-> <<1>>]
JFalse == [t |-> "bool", v |-> <<0>>]

\* product_search_tool: tools.py 137-141, 192-196, 199-203
SearchResult(items, summary) ==
    JDict([items |-> JList(items), totalFound |-> JNum(Len(items)),
           productsSummary |-> Lit(summary)])
\* show_cart_tool: tools.py 250-255
CartResult(action, items) ==
    JDict([showCart |-> JTrue, action |-> Lit(action),
           message |-> Lit("Displaying cart"), items |-> JList(items)])
\* add_to_cart_tool: tools.py 315-320
AddResult(product_id, quantity) ==
    JDict([success |-> JTrue, message |-> Lit("added to cart"),
           product_id |-> Lit(product_id), quantity |-> JNum(quantity)])
\* collect_user_info_tool: tools.py 351, 353, 358-363
InfoResult(field, value) ==
    JDict([success |-> JTrue, field |-> Lit(field), value |-> JStr(value),
           message |-> Lit("Information collected")])
InfoRejected(why) == JDict([success |-> JFalse, message |-> Lit(why)])
\* process_payment_tool: tools.py 383, 388-393
PaymentEmpty == JDict([success |-> JFalse, message |-> Lit("Le panier est vide.")])
PaymentResult(first_name) ==
    JDict([success |-> JTrue, message |-> Lit("Paiement confirme"),
           payment_id |-> JStr(<<Word("PAY")>> \o first_name),
           status |-> Lit("completed")])
\* ToolNode's answer to a call it could not run (arguments that do not fit the
\* tool's schema): a plain string, not a JSON document.
ToolErrorContent == <<Word("Error:"), Ws, Word("invalid"), Ws, Word("arguments")>>

ToolNames ==
    <<"product_search_tool", "show_cart_tool", "add_to_cart_tool",
      "collect_user_info_tool", "process_payment_tool">>

(***************************************************************************)
(* The session store (cart_service.py, user_service.py).                   *)
(***************************************************************************)
Sessions == {"default", "s1"}
ProfileFields == {"first_name", "phone", "email"}
\* The fields a user document can get: save_user_info writes whatever field name
\* it is given (user_service.py 21, 32); "address" stands for any other name.
StoredFields == ProfileFields \cup {"address"}

NoCartDoc == [present |-> FALSE, items |-> <<>>]
NoUserDoc == [present |-> FALSE, fields |-> [f \in StoredFields |-> JAbsent]]

EmptyStore ==
    [carts |-> [u \in Sessions |-> NoCartDoc],
     in_memory_carts |-> [u \in Sessions |-> <<>>],
     user |-> [u \in Sessions |-> NoUserDoc],
     in_memory_users |-> [u \in Sessions |-> NoUserDoc]]

MergeItemMutAppend(items, item) == Append(items, item)

\* The quantity merge of cart_service.py 49-56 and 78-83: raise the quantity of
\* the first item with the product's id, or append the item.
RECURSIVE MergeItem(_, _)
MergeItem(items, item) ==
    IF items = <<>> THEN <<item>>
    ELSE IF Head(items).id = item.id
         THEN <<[Head(items) EXCEPT !.quantity = @ + item.quantity]>> \o Tail(items)
         ELSE <<Head(items)>> \o MergeItem(Tail(items), item)

\* CartService.get_cart (cart_service.py 13-24).  fails: the find_one raises.
GetCart(S, connected, user_id, fails) ==
    IF connected /\ ~fails /\ S.carts[user_id].present
    THEN S.carts[user_id].items
    ELSE S.in_memory_carts[user_id]

AddToCartMutNoMerge(S, connected, user_id, item, fails) ==
    IF connected /\ ~fails
    THEN [S EXCEPT !.carts[user_id] = [present |-> TRUE, items |-> Append(@.items, item)]]
    ELSE [S EXCEPT !.in_memory_carts[user_id] = MergeItem(@, item)]

\* CartService.add_to_cart (cart_service.py 27-84).  fails: a call of the try
\* block (find_one, update_one, insert_one) raises, before the database changed.
AddToCart(S, connected, user_id, item, fails) ==
    IF connected /\ ~fails
    THEN [S EXCEPT !.carts[user_id] =
             [present |-> TRUE,
              items |-> IF @.present THEN MergeItem(@.items, item) ELSE <<item>>]]
    ELSE [S EXCEPT !.in_memory_carts[user_id] = MergeItem(@, item)]

\* CartService.clear_cart (cart_service.py 87-99).  fails: delete_one raises.
ClearCart(S, connected, user_id, fails) ==
    IF connected /\ ~fails
    THEN [S EXCEPT !.carts[user_id] = NoCartDoc]
    ELSE [S EXCEPT !.in_memory_carts[user_id] = <<>>]

SaveUserInfoMutLost(S, connected, user_id, field, value, fails) ==
    IF connected /\ ~fails
    THEN [S EXCEPT !.user[user_id] =
             [present |-> TRUE, fields |-> [@.fields EXCEPT ![field] = value]]]
    ELSE S

\* UserService.save_user_info (user_service.py 13-33).  fails: update_one raises.
SaveUserInfo(S, connected, user_id, field, value, fails) ==
    IF connected /\ ~fails
    THEN [S EXCEPT !.user[user_id] =
             [present |-> TRUE, fields |-> [@.fields EXCEPT ![field] = value]]]
    ELSE [S EXCEPT !.in_memory_users[user_id] =
             [present |-> TRUE, fields |-> [@.fields EXCEPT ![field] = value]]]

\* UserService.get_user (user_service.py 36-45).  fails: find_one raises.
GetUser(S, connected, user_id, fails) ==
    IF connected /\ ~fails THEN S.user[user_id] ELSE S.in_memory_users[user_id]

(***************************************************************************)
(* The tools (tools.py).  A tool run takes the store and the outcomes nd   *)
(* of the calls it makes to the outside (nd.db: the database calls that    *)
(* raise, by position; nd.api: the search API's answer) and gives the new  *)
(* store and the content of its ToolMessage.                               *)
(***************************************************************************)
\* Minimum lengths of collect_user_info_tool.
MinFirstName == 2
MinPhone == 8

Ran(S, payload) == [store |-> S, content |-> Dumps(payload)]

\* A cart item as the tool result shows it.
ItemJson(i) == JDict([id |-> Lit(i.id), quantity |-> JNum(i.quantity)])
ItemsJson(items) == [k \in DOMAIN items |-> ItemJson(items[k])]

ProductSearchMutRaises(S, nd) ==
    IF nd.api = "ok"
    THEN Ran(S, SearchResult(<<Lit("p1"), Lit("p2")>>, "Found 2 products"))
    ELSE [store |-> S, content |-> ToolErrorContent]

\* product_search_tool (tools.py 127-203)
ProductSearch(S, nd) ==
    Ran(S, CASE nd.api = "ok" ->
                    SearchResult(<<Lit("p1"), Lit("p2")>>, "Found 2 products")
             [] nd.api = "status" -> SearchResult(<<>>, "Error during search")
             [] nd.api = "raise" -> SearchResult(<<>>, "Error during search"))

ShowCartMutCheckoutClears(S, connected, user_id, args, nd) ==
    Ran(IF args.action = "checkout" THEN ClearCart(S, connected, user_id, FALSE) ELSE S,
        CartResult(args.action, ItemsJson(GetCart(S, connected, user_id, 1 \in nd.db))))

\* show_cart_tool (tools.py 246-261)
ShowCart(S, connected, user_id, args, nd) ==
    Ran(S, CartResult(args.action, ItemsJson(GetCart(S, connected, user_id, 1 \in nd.db))))

\* add_to_cart_tool (tools.py 301-333)
AddToCartTool(S, connected, user_id, args, nd) ==
    Ran(AddToCart(S, connected, user_id,
                  [id |-> args.product_id, quantity |-> args.quantity], 1 \in nd.db),
        AddResult(args.product_id, args.quantity))

\* collect_user_info_tool (tools.py 346-365)
CollectUserInfo(S, connected, user_id, args, nd) ==
    IF args.field = "first_name" /\ Len(args.value) < MinFirstName
    THEN Ran(S, InfoRejected("First name too short"))
    ELSE IF args.field = "phone" /\ Len(args.value) < MinPhone
    THEN Ran(S, InfoRejected("Phone number too short"))
    ELSE Ran(SaveUserInfo(S, connected, user_id, args.field, JStr(args.value), 1 \in nd.db),
             InfoResult(args.field, args.value))

ProcessPaymentMutNoEmptyCheck(S, connected, user_id, args, nd) ==
    LET S1 == SaveUserInfo(S, connected, user_id, "first_name",
                           JStr(args.first_name), 1 \in nd.db)
        S2 == SaveUserInfo(S1, connected, user_id, "phone", JStr(args.phone), 2 \in nd.db)
    IN  Ran(ClearCart(S2, connected, user_id, 4 \in nd.db), PaymentResult(args.first_name))

\* process_payment_tool (tools.py 373-395)
ProcessPayment(S, connected, user_id, args, nd) ==
    LET S1 == SaveUserInfo(S, connected, user_id, "first_name",
                           JStr(args.first_name), 1 \in nd.db)
        S2 == SaveUserInfo(S1, connected, user_id, "phone", JStr(args.phone), 2 \in nd.db)
        cart_items == GetCart(S2, connected, user_id, 3 \in nd.db)
    IN  IF cart_items = <<>> THEN Ran(S2, PaymentEmpty)
        ELSE Ran(ClearCart(S2, connected, user_id, 4 \in nd.db),
                 PaymentResult(args.first_name))

\* ToolNode on one call: a call whose arguments do not fit the tool's schema is
\* answered with an error string and the tool does not run.
RunTool(S, connected, user_id, call, nd) ==
    IF ~call.args.valid THEN [store |-> S, content |-> ToolErrorContent]
    ELSE CASE call.name = "product_search_tool" -> ProductSearch(S, nd)
           [] call.name = "show_cart_tool" -> ShowCart(S, connected, user_id, call.args, nd)
           [] call.name = "add_to_cart_tool" ->
                  AddToCartTool(S, connected, user_id, call.args, nd)
           [] call.name = "collect_user_info_tool" ->
                  CollectUserInfo(S, connected, user_id, call.args, nd)
           [] call.name = "process_payment_tool" ->
                  ProcessPayment(S, connected, user_id, call.args, nd)

RunToolsMutFirstId(S, connected, user_id, calls, nds) ==
    [store |-> S,
     results |-> [i \in DOMAIN calls |->
         ToolMessage(RunTool(S, connected, user_id, calls[i], nds[i]).content, calls[1].id)]]

\* ToolNode on the calls of one AIMessage, in call order: the store after the
\* last call and one ToolMessage per call, under the call's id.
RECURSIVE RunTools(_, _, _, _, _)
RunTools(S, connected, user_id, calls, nds) ==
    IF calls = <<>> THEN [store |-> S, results |-> <<>>]
    ELSE LET r == RunTool(S, connected, user_id, Head(calls), Head(nds))
             rest == RunTools(r.store, connected, user_id, Tail(calls), Tail(nds))
         IN  [store |-> rest.store,
              results |-> <<ToolMessage(r.content, Head(calls).id)>> \o rest.results]

(***************************************************************************)
(* The provider chain builder (agent_rotation.py 30-121).                  *)
(***************************************************************************)
MaxIndexed == 1

\* Provider kinds in the order the builder instantiates them.
Kinds == <<"mistral", "google", "openai">>
Keys == {"k1", "k2"}

\* The environment slots read for a kind (agent_rotation.py 42-54): the
\* primary slot 0, for google also GEMINI_API_KEY (slot -1), and the indexed
\* alternates.
SlotsOf(kind) ==
    {[kind |-> kind, idx |-> i] :
        i \in (0..MaxIndexed) \cup (IF kind = "google" THEN {-1} ELSE {})}
Slots == UNION {SlotsOf(Kinds[i]) : i \in DOMAIN Kinds}

\* mistral_keys / google_keys / openai_keys after list(set(...)): the distinct
\* non-empty values of the kind's slots (agent_rotation.py 42-59).
KeysOf(e, kind) == {e[s] : s \in SlotsOf(kind)} \ {""}

Handle(kind, key) == [kind |-> kind, key |-> key]

\* The orders list(set(keys)) may produce.
Perms(S) == {p \in [1..Cardinality(S) -> S] : \A i, j \in DOMAIN p : p[i] = p[j] => i = j}

\* The loop over one kind's keys (agent_rotation.py 64-75, 78-89, 92-101): a
\* handle per key, in list order, skipping the keys whose constructor raised.
Handles(kind, order, failed) ==
    LET Built(h) == h \notin failed
    IN  SelectSeq([i \in DOMAIN order |-> Handle(kind, order[i])], Built)

ConcatMutOpenAIFirst(m, g, o) == o \o m \o g

\* llm_instances after the three loops.
Concat(m, g, o) == m \o g \o o

\* No operation has been run on the store alone.
NoOp == [name |-> "", user_id |-> "", args |-> [valid |-> FALSE], nd |-> {},
         before |-> EmptyStore, result |-> <<>>]

\* No request has been received.
NoRequest == [session_id |-> "", message |-> <<>>]
NoInvocation == <<>>
NoSessions ==
    /\ request = NoRequest
    /\ invocation = NoInvocation
    /\ threads = [u \in Sessions |-> <<>>]
    /\ db = FALSE
    /\ store = EmptyStore
    /\ n_requests = 0
    /\ op = NoOp
    /\ n_ops = 0
    /\ llm_input = <<>>
    /\ tools_nd = <<>>
    /\ tasks = <<>>

InitBuild ==
    /\ env \in [Slots -> Keys \cup {""}]
    /\ ctor_failed = {}
    /\ llm_instances = <<>>
    /\ build = "start"
    /\ messages = <<>>
    /\ tentative = NoTentative
    /\ response = NoResponse
    /\ stage = "idle"
    /\ NoSessions

\* get_rotated_llm_with_tools and the test of its result (agent_rotation.py 118-121).
BuildChain ==
    /\ build = "start"
    /\ \E om \in Perms(KeysOf(env, "mistral")), og \in Perms(KeysOf(env, "google")),
          oo \in Perms(KeysOf(env, "openai")) :
       \E failed \in SUBSET {Handle(Kinds[k], key) : k \in DOMAIN Kinds, key \in Keys} :
          /\ \A h \in failed : h.key \in KeysOf(env, h.kind)
          /\ ctor_failed' = failed
          /\ llm_instances' = Concat(Handles("mistral", om, failed),
                                     Handles("google", og, failed),
                                     Handles("openai", oo, failed))
    /\ build' = IF llm_instances' = <<>> THEN "failed" ELSE "ready"
    /\ UNCHANGED <<opVars, runVars, env, chatVars, sessVars>>

NextBuild == BuildChain
SpecBuild == InitBuild /\ [][NextBuild]_vars

(***************************************************************************)
(* Inputs of the resolution: final answers and transcripts.                *)
(***************************************************************************)
MaxWrap == 2
MaxToolCalls == 2

SeqsUpTo(S, n) == UNION {[1..k -> S] : k \in 0..n}

\* What a model may put around the JSON document of its final answer.
WrapTokens == {Ws, Fence, Word("json"), Word("hello")}
Wrappers == SeqsUpTo(WrapTokens, MaxWrap)

\* The fields of the final answer's JSON object, each possibly absent.
MessageVals == <<JAbsent, Lit("ok"), JStr(<<>>), JNull>>
UiActionVals ==
    <<JAbsent, Lit("NONE"), Lit("RENDER_CART"), Lit("SHOW_MAP"), JNull>>
DataVals == <<JAbsent, JDict(<<>>), JDict([showCart |-> JTrue])>>
AnswerObject(m, u, d) ==
    JDict([message |-> MessageVals[m], ui_action |-> UiActionVals[u],
           data |-> DataVals[d]])
\* JSON documents that are no object.
NonObjects == <<JList(<<Lit("ok")>>), JNull>>

\* The text between the wrappers: nothing, an object, or another document.
Middle(kind, m, u, d) ==
    CASE kind = "none" -> <<>>
      [] kind = "object" -> <<Doc(AnswerObject(m, u, d))>>
      [] kind = "other" -> <<Doc(NonObjects[m])>>

\* The results a tool call can get in a transcript.
ResultsOf(name) ==
    CASE name = "product_search_tool" ->
             <<Dumps(SearchResult(<<Lit("p1"), Lit("p2")>>, "Found 2 products")),
               Dumps(SearchResult(<<>>, "Error during search")),
               ToolErrorContent>>
      [] name = "show_cart_tool" ->
             <<Dumps(CartResult("view", <<Lit("p1")>>)), Dumps(CartResult("view", <<>>)),
               ToolErrorContent>>
      [] name = "add_to_cart_tool" -> <<Dumps(AddResult("p1", 1)), ToolErrorContent>>
      [] name = "collect_user_info_tool" ->
             <<Dumps(InfoResult("phone", <<Word("0612345678")>>)),
               Dumps(InfoRejected("Phone number too short"))>>
      [] name = "process_payment_tool" ->
             <<Dumps(PaymentResult(<<Word("JEAN")>>)), Dumps(PaymentEmpty),
               ToolErrorContent>>

\* The resolution alone: no chain and no session is involved.
NoChain ==
    /\ env = [s \in Slots |-> ""]
    /\ ctor_failed = {}
    /\ llm_instances = <<>>
    /\ build = "ready"
    /\ NoSessions

NumCalls == Len(AllToolCalls(messages))
PendingCalls ==
    IF messages # <<>> /\ messages[Len(messages)].role = "ai"
    THEN messages[Len(messages)].tool_calls ELSE <<>>

(***************************************************************************)
(* Resolution of one final answer without tool calls.                      *)
(***************************************************************************)
InitPass1 ==
    /\ \E pre \in Wrappers, post \in Wrappers,
          kind \in {"none", "object", "other"},
          m \in DOMAIN MessageVals, u \in DOMAIN UiActionVals, d \in DOMAIN DataVals :
          /\ kind = "none" => m = 1 /\ u = 1 /\ d = 1
          /\ kind = "other" => m \in DOMAIN NonObjects /\ u = 1 /\ d = 1
          /\ messages = <<HumanMessage(<<Word("a")>>),
                          AIMessage(pre \o Middle(kind, m, u, d) \o post, <<>>)>>
    /\ tentative = NoTentative
    /\ response = NoResponse
    /\ stage = "end"
    /\ NoChain

\* app.py 159-277: both passes and the construction of the response.
Resolve ==
    /\ stage = "end"
    /\ tentative' = Pass1(LastContent(messages))
    /\ response' = ResolveResponse(messages)
    /\ stage' = "resolved"
    /\ UNCHANGED <<opVars, runVars, messages, chainVars, sessVars>>

NextPass1 == Resolve
SpecPass1 == InitPass1 /\ [][NextPass1]_vars

(***************************************************************************)
(* Resolution of the transcripts of a loop run.                            *)
(***************************************************************************)
InitResolve ==
    /\ messages = <<HumanMessage(<<Word("a")>>)>>
    /\ tentative = NoTentative
    /\ response = NoResponse
    /\ stage = "agent"
    /\ NoChain

\* The model asks for tools: one AIMessage carrying n calls with fresh ids.
AgentCalls ==
    /\ stage = "agent"
    /\ \E n \in 1..(MaxToolCalls - NumCalls) :
       \E names \in [1..n -> DOMAIN ToolNames] :
          messages' = Append(messages,
              AIMessage(<<>>, [i \in 1..n |->
                  ToolCall(NumCalls + i, ToolNames[names[i]], <<>>)]))
    /\ stage' = "tools"
    /\ UNCHANGED <<opVars, runVars, tentative, response, chainVars, sessVars>>

\* ToolNode answers every pending call, in order, under the call's id.
ToolResults ==
    /\ stage = "tools"
    /\ \E pick \in [1..Len(PendingCalls) -> 1..3] :
          /\ \A i \in 1..Len(PendingCalls) :
                pick[i] \in DOMAIN ResultsOf(PendingCalls[i].name)
          /\ messages' = messages \o
                [i \in 1..Len(PendingCalls) |->
                    ToolMessage(ResultsOf(PendingCalls[i].name)[pick[i]],
                                PendingCalls[i].id)]
    /\ stage' = "agent"
    /\ UNCHANGED <<opVars, runVars, tentative, response, chainVars, sessVars>>

\* The model gives its final answer.
AgentFinal ==
    /\ stage = "agent"
    /\ \E kind \in {"none", "object", "other"},
          m \in DOMAIN MessageVals, u \in DOMAIN UiActionVals, d \in DOMAIN DataVals :
          /\ kind = "none" => m = 1 /\ u = 1 /\ d = 1
          /\ kind = "other" => m \in DOMAIN NonObjects /\ u = 1 /\ d = 1
          /\ messages' = Append(messages,
                AIMessage(IF kind = "none" THEN <<Word("hello")>>
                          ELSE Middle(kind, m, u, d), <<>>))
    /\ stage' = "end"
    /\ UNCHANGED <<opVars, runVars, tentative, response, chainVars, sessVars>>

NextResolve == AgentCalls \/ ToolResults \/ AgentFinal \/ Resolve
SpecResolve == InitResolve /\ [][NextResolve]_vars

(***************************************************************************)
(* The chat endpoint over the agent loop (app.py 115-285,                  *)
(* agent_rotation.py 107-170).                                             *)
(***************************************************************************)
MaxRequests == 2

\* The messages of the clients.
MessagePool == << <<>>, <<Ws>>, <<Ws, Word("hi")>> >>

Chars(n) == [i \in 1..n |-> Word("0")]

\* The tool calls a model may ask for.
CallPool ==
    << [name |-> "product_search_tool", args |-> [valid |-> TRUE]],
       [name |-> "product_search_tool", args |-> [valid |-> FALSE]],
       [name |-> "show_cart_tool", args |-> [valid |-> TRUE, action |-> "view"]],
       [name |-> "add_to_cart_tool",
        args |-> [valid |-> TRUE, product_id |-> "p1", quantity |-> 1]],
       [name |-> "collect_user_info_tool",
        args |-> [valid |-> TRUE, field |-> "phone", value |-> Chars(MinPhone)]],
       [name |-> "process_payment_tool",
        args |-> [valid |-> TRUE, first_name |-> <<Word("J"), Word("o")>>,
                  phone |-> Chars(MinPhone)]] >>

\* The final answers a model may give.
FinalPool ==
    << <<Word("hello")>>,
       <<>>,
       <<Doc(AnswerObject(4, 2, 1))>>,
       <<Fence, Word("json"), Doc(AnswerObject(2, 4, 3)), Fence>> >>

\* The outcomes of the outside calls of one tool call.
NdOf(call, connected) ==
    IF ~call.args.valid THEN {[db |-> {}, api |-> "ok"]}
    ELSE IF call.name = "product_search_tool"
    THEN {[db |-> {}, api |-> a] : a \in {"ok", "status", "raise"}}
    ELSE IF ~connected THEN {[db |-> {}, api |-> "ok"]}
    ELSE IF call.name = "process_payment_tool"
    THEN {[db |-> d, api |-> "ok"] : d \in SUBSET (1..4)}
    ELSE {[db |-> d, api |-> "ok"] : d \in SUBSET {1}}
NdAll == {[db |-> d, api |-> a] : d \in SUBSET (1..4), a \in {"ok", "status", "raise"}}

BlankMutEmptyOnly(message) == message = <<>>
ReturnedMutAnyCall(log) == log # <<>>

InvocationOrderMutRetry(instances) == instances \o <<instances[1]>>

\* The handles of primary_llm.with_fallbacks(fallbacks), in the order an
\* invocation tries them (agent_rotation.py 107-116).
InvocationOrder(instances) ==
    LET primary_llm == instances[1]
        fallbacks == Tail(instances)
    IN  <<primary_llm>> \o fallbacks

\* llm_with_tools.invoke, as a log: the handles called, in call order, each
\* with its outcome.  A handle is called when every handle before it failed.
RECURSIVE Invoke(_, _)
Invoke(order, healthy) ==
    IF order = <<>> THEN <<>>
    ELSE IF healthy[Head(order)] THEN <<[handle |-> Head(order), ok |-> TRUE]>>
    ELSE <<[handle |-> Head(order), ok |-> FALSE]>> \o Invoke(Tail(order), healthy)

\* The invocation returned an output (it raises when every handle failed).
Returned(log) == log # <<>> /\ log[Len(log)].ok

HandleSet == {llm_instances[i] : i \in DOMAIN llm_instances}

\* The environment after a startup that built an n-handle chain.
ChainPool ==
    << <<Handle("mistral", "k1")>>,
       <<Handle("mistral", "k1"), Handle("google", "k1"), Handle("openai", "k2")>> >>
EnvOf(chain) ==
    [s \in Slots |->
        IF s.idx = 0 /\ \E i \in DOMAIN chain : chain[i].kind = s.kind
        THEN (CHOOSE h \in {chain[i] : i \in DOMAIN chain} : h.kind = s.kind).key
        ELSE ""]

Init ==
    /\ \E c \in DOMAIN ChainPool :
          /\ llm_instances = ChainPool[c]
          /\ env = EnvOf(ChainPool[c])
    /\ ctor_failed = {}
    /\ build = "ready"
    /\ db \in BOOLEAN
    /\ store = EmptyStore
    /\ threads = [u \in Sessions |-> <<>>]
    /\ request = NoRequest
    /\ invocation = NoInvocation
    /\ n_requests = 0
    /\ op = NoOp
    /\ n_ops = 0
    /\ llm_input = <<>>
    /\ tools_nd = <<>>
    /\ tasks = <<>>
    /\ messages = <<>>
    /\ tentative = NoTentative
    /\ response = NoResponse
    /\ stage = "idle"

\* The session_id values of a ChatRequest: "" is a missing or empty one.
SessionIds == {"", "default", "s1"}

\* The thread, and the user_id of the tools, of a request (app.py 154).
thread_id(session_id) == IF session_id = "" THEN "default" ELSE session_id

\* The threads are interchangeable: the first request is taken to be this one.
FirstSession == ""

tool_user_idMutDefault(configurable) == "default"

\* user_id of a tool: the thread_id of the run's config (tools.py 247, 302, 347, 374).
tool_user_id(configurable) == configurable.thread_id

graph_inputMutFresh(checkpoint, message) == <<HumanMessage(message)>>

\* The state the graph starts a run from: the input message added to the
\* checkpoint of the thread (app.py 151-157, agent_rotation.py 168).
graph_input(checkpoint, message) == Append(checkpoint, HumanMessage(message))

agent_nodeMutNoPrompt(state_messages) == state_messages

\* The messages agent_node hands to the model (agent_rotation.py 132-136).
agent_node(state_messages) ==
    IF state_messages = <<>> \/ state_messages[1].role # "system"
    THEN <<SystemMessage>> \o state_messages
    ELSE state_messages

\* Tool calls of all threads together.
RECURSIVE CallsIn(_)
CallsIn(S) ==
    IF S = {} THEN 0
    ELSE LET u == CHOOSE x \in S : TRUE
         IN  Len(AllToolCalls(threads[u])) + CallsIn(S \ {u})
TotalCalls == CallsIn(Sessions)

Idle == stage \in {"idle", "rejected", "failed", "resolved"}

\* str.strip() leaves nothing (app.py 135).
Blank(message) == message = <<>> \/ Len(Strip(message)) = 0

\* chat_endpoint up to the start of the loop (app.py 133-157): the validation,
\* and the input handed to the graph under the session's thread.
ChatRequest ==
    /\ Idle
    /\ n_requests < MaxRequests
    /\ \E sid \in SessionIds, m \in DOMAIN MessagePool :
          /\ n_requests = 0 => sid = FirstSession
          /\ request' = [session_id |-> sid, message |-> MessagePool[m]]
          /\ IF Blank(MessagePool[m])
             THEN /\ response' = HttpError(400)
                  /\ stage' = "rejected"
                  /\ messages' = <<>>
                  /\ UNCHANGED threads
             ELSE /\ response' = NoResponse
                  /\ stage' = "agent"
                  /\ messages' = graph_input(threads[thread_id(sid)], MessagePool[m])
                  /\ threads' = [threads EXCEPT ![thread_id(sid)] = messages']
    /\ n_requests' = n_requests + 1
    /\ tentative' = NoTentative
    /\ invocation' = NoInvocation
    /\ llm_input' = <<>>
    /\ UNCHANGED <<opVars, tools_nd, tasks, chainVars, db, store>>

\* What a model may answer: tool calls with fresh ids, or a final text.
Outputs ==
    {AIMessage(FinalPool[t], <<>>) : t \in DOMAIN FinalPool}
    \cup UNION {
        {AIMessage(<<>>, [i \in 1..n |->
                ToolCall(NumCalls + i, CallPool[pick[i]].name, CallPool[pick[i]].args)]) :
            pick \in [1..n -> DOMAIN CallPool]} :
        n \in 1..(MaxToolCalls - TotalCalls)}

should_continueMutAlwaysEnd(msgs) == "end"

\* should_continue (agent_rotation.py 142-147): the route after an agent step.
should_continue(msgs) ==
    LET last_message == msgs[Len(msgs)]
    IN  IF last_message.tool_calls # <<>> THEN "tools" ELSE "end"

\* agent_node and should_continue (agent_rotation.py 131-147), a handle
\* answering: the output is appended and routes the loop.
AgentAnswers ==
    /\ stage = "agent"
    /\ \E healthy \in [HandleSet -> BOOLEAN] :
          /\ invocation' = Invoke(InvocationOrder(llm_instances), healthy)
          /\ Returned(invocation')
    /\ \E out \in Outputs :
          /\ messages' = Append(messages, out)
          /\ stage' = should_continue(messages')
    /\ threads' = [threads EXCEPT ![thread_id(request.session_id)] = messages']
    /\ llm_input' = agent_node(messages)
    /\ tools_nd' = <<>>
    /\ UNCHANGED <<opVars, tasks, chainVars, tentative, response, request, db, store, n_requests>>

\* agent_node when every handle fails: the exception leaves the graph and
\* chat_endpoint turns it into a 500 (app.py 281-285).
AgentFails ==
    /\ stage = "agent"
    /\ \E healthy \in [HandleSet -> BOOLEAN] :
          /\ invocation' = Invoke(InvocationOrder(llm_instances), healthy)
          /\ ~Returned(invocation')
    /\ response' = HttpError(500)
    /\ stage' = "failed"
    /\ llm_input' = agent_node(messages)
    /\ tools_nd' = <<>>
    /\ UNCHANGED <<opVars, tasks, chainVars, messages, tentative, request, threads, db, store,
                   n_requests>>

\* The tools node (agent_rotation.py 153, 166): every call of the last
\* AIMessage is run and answered, then the loop goes back to the agent.
Tools ==
    /\ stage = "tools"
    /\ \E nds \in [1..Len(PendingCalls) -> NdAll] :
          /\ \A i \in 1..Len(PendingCalls) : nds[i] \in NdOf(PendingCalls[i], db)
          /\ LET configurable == [thread_id |-> thread_id(request.session_id)]
                 r == RunTools(store, db, tool_user_id(configurable), PendingCalls, nds)
             IN  /\ store' = r.store
                 /\ messages' = messages \o r.results
          /\ tools_nd' = nds
    /\ threads' = [threads EXCEPT ![thread_id(request.session_id)] = messages']
    /\ stage' = "agent"
    /\ invocation' = NoInvocation
    /\ llm_input' = <<>>
    /\ UNCHANGED <<opVars, tasks, chainVars, tentative, response, request, db, n_requests>>

Next == ChatRequest \/ AgentAnswers \/ AgentFails \/ Tools \/ Resolve
Spec == Init /\ [][Next]_vars

(***************************************************************************)
(* One run of the graph under a model that may ask for a tool at every     *)
(* agent step.  chat_endpoint passes no recursion_limit in the config       *)
(* (app.py 153-157) and the graph is compiled without one                  *)
(* (agent_rotation.py 168), so the run has the limit the graph library      *)
(* gives every run: after RecursionLimit steps of its nodes without         *)
(* reaching END it raises GraphRecursionError, which chat_endpoint turns   *)
(* into a 500 (app.py 281-285).                                            *)
(***************************************************************************)
RecursionLimit == 25

\* The steps the run has taken, counted on the messages after the last
\* HumanMessage: one per agent step that answered, one per tools step.
Steps(msgs) ==
    LET humans == {i \in DOMAIN msgs : msgs[i].role = "human"}
        start == IF humans = {} THEN 0
                 ELSE CHOOSE i \in humans : \A j \in humans : j <= i
    IN  Cardinality({i \in (start + 1)..Len(msgs) : msgs[i].role = "ai"})
        + Cardinality({i \in (start + 2)..Len(msgs) :
              msgs[i].role = "tool" /\ msgs[i - 1].role = "ai"})

OutOfStepsMutLate(msgs) == Steps(msgs) >= RecursionLimit + 2

\* The run may take no further step.
OutOfSteps(msgs) == Steps(msgs) >= RecursionLimit

\* The tool call the model keeps asking for.
LoopCall == CallPool[1]

InitLoop ==
    /\ llm_instances = ChainPool[1]
    /\ env = EnvOf(ChainPool[1])
    /\ ctor_failed = {}
    /\ build = "ready"
    /\ db = FALSE
    /\ store = EmptyStore
    /\ request = [session_id |-> "s1", message |-> MessagePool[3]]
    /\ messages = graph_input(<<>>, request.message)
    /\ threads = [u \in Sessions |-> IF u = "s1" THEN messages ELSE <<>>]
    /\ invocation = NoInvocation
    /\ n_requests = 1
    /\ op = NoOp
    /\ n_ops = 0
    /\ llm_input = <<>>
    /\ tools_nd = <<>>
    /\ tasks = <<>>
    /\ tentative = NoTentative
    /\ response = NoResponse
    /\ stage = "agent"

\* agent_node, the model asking for a tool once more, under a fresh call id
\* (agent_rotation.py 131-147).
LoopAgentCalls ==
    /\ stage = "agent"
    /\ ~OutOfSteps(messages)
    /\ invocation' = Invoke(InvocationOrder(llm_instances), [h \in HandleSet |-> TRUE])
    /\ llm_input' = agent_node(messages)
    /\ messages' = Append(messages,
           AIMessage(<<>>, <<ToolCall(Len(messages), LoopCall.name, LoopCall.args)>>))
    /\ stage' = should_continue(messages')
    /\ threads' = [threads EXCEPT ![thread_id(request.session_id)] = messages']
    /\ tools_nd' = <<>>
    /\ UNCHANGED <<opVars, tasks, chainVars, tentative, response, request, db, store, n_requests>>

\* agent_node, the model giving its final answer.
LoopAgentFinal ==
    /\ stage = "agent"
    /\ ~OutOfSteps(messages)
    /\ invocation' = Invoke(InvocationOrder(llm_instances), [h \in HandleSet |-> TRUE])
    /\ llm_input' = agent_node(messages)
    /\ messages' = Append(messages, AIMessage(FinalPool[1], <<>>))
    /\ stage' = should_continue(messages')
    /\ threads' = [threads EXCEPT ![thread_id(request.session_id)] = messages']
    /\ tools_nd' = <<>>
    /\ UNCHANGED <<opVars, tasks, chainVars, tentative, response, request, db, store, n_requests>>

\* agent_node when every handle fails (app.py 281-285).
LoopAgentFails ==
    /\ stage = "agent"
    /\ ~OutOfSteps(messages)
    /\ invocation' = Invoke(InvocationOrder(llm_instances), [h \in HandleSet |-> FALSE])
    /\ llm_input' = agent_node(messages)
    /\ response' = HttpError(500)
    /\ stage' = "failed"
    /\ tools_nd' = <<>>
    /\ UNCHANGED <<opVars, tasks, chainVars, messages, tentative, request, threads, db, store,
                   n_requests>>

\* The tools node (agent_rotation.py 153, 166).
LoopTools ==
    /\ stage = "tools"
    /\ ~OutOfSteps(messages)
    /\ \E nds \in [1..Len(PendingCalls) -> NdAll] :
          /\ \A i \in 1..Len(PendingCalls) :
                nds[i] \in NdOf(PendingCalls[i], db) /\ nds[i].api # "status"
          /\ LET configurable == [thread_id |-> thread_id(request.session_id)]
                 r == RunTools(store, db, tool_user_id(configurable), PendingCalls, nds)
             IN  /\ store' = r.store
                 /\ messages' = messages \o r.results
          /\ tools_nd' = nds
    /\ threads' = [threads EXCEPT ![thread_id(request.session_id)] = messages']
    /\ stage' = "agent"
    /\ invocation' = NoInvocation
    /\ llm_input' = <<>>
    /\ UNCHANGED <<opVars, tasks, chainVars, tentative, response, request, db, n_requests>>

\* The run is out of steps before END: GraphRecursionError leaves ainvoke and
\* chat_endpoint answers 500 (app.py 157, 281-285).
LoopLimit ==
    /\ stage \in {"agent", "tools"}
    /\ OutOfSteps(messages)
    /\ response' = HttpError(500)
    /\ stage' = "failed"
    /\ UNCHANGED <<opVars, runVars, chainVars, messages, tentative, request, invocation,
                   threads, db, store, n_requests>>

NextLoop == LoopAgentCalls \/ LoopAgentFinal \/ LoopAgentFails \/ LoopTools \/ LoopLimit
\* Every call of the run returns or raises: a step that can be taken is taken.
SpecLoop == InitLoop /\ [][NextLoop]_vars /\ WF_vars(NextLoop)

(***************************************************************************)
(* The session store under the tools and the service calls, one operation  *)
(* at a time (tools.py 301-395, cart_service.py, user_service.py).  When    *)
(* the database is connected each of its calls may raise.                  *)
(***************************************************************************)
MaxOps == 3

Products == {"p1", "p2"}
\* quantity: int of add_to_cart_tool (tools.py 271): any integer is accepted.
Quantities == {1, -1}

\* The (field, value) arguments given to collect_user_info_tool.
CollectPool ==
    << [valid |-> TRUE, field |-> "first_name", value |-> Chars(MinFirstName - 1)],
       [valid |-> TRUE, field |-> "first_name", value |-> Chars(MinFirstName)],
       [valid |-> TRUE, field |-> "phone", value |-> Chars(MinPhone - 1)],
       [valid |-> TRUE, field |-> "phone", value |-> Chars(MinPhone)],
       [valid |-> TRUE, field |-> "email", value |-> Chars(1)],
       [valid |-> TRUE, field |-> "address", value |-> Chars(1)] >>

\* The arguments given to process_payment_tool.
PaymentArgs ==
    [valid |-> TRUE, first_name |-> <<Word("J"), Word("o")>>, phone |-> Chars(MinPhone + 1)]

\* What get_user returned, as a document: None, or the fields of the profile.
UserJson(doc) == IF doc.present THEN JDict(doc.fields) ELSE JNull

InitStore ==
    /\ db \in BOOLEAN
    /\ store = EmptyStore
    /\ op = NoOp
    /\ n_ops = 0
    /\ llm_input = <<>>
    /\ tools_nd = <<>>
    /\ tasks = <<>>
    /\ request = NoRequest
    /\ invocation = NoInvocation
    /\ threads = [u \in Sessions |-> <<>>]
    /\ n_requests = 0
    /\ env = [s \in Slots |-> ""]
    /\ ctor_failed = {}
    /\ llm_instances = <<>>
    /\ build = "ready"
    /\ messages = <<>>
    /\ tentative = NoTentative
    /\ response = NoResponse
    /\ stage = "idle"

\* One tool run for a session, outside any loop: the store after it, and the
\* record of the run with the tool's result as the caller sees it.
ToolRun(call, u, nd) ==
    LET r == RunTool(store, db, u, call, nd)
    IN  [store |-> r.store,
         op |-> [name |-> call.name, user_id |-> u, args |-> call.args,
                 nd |-> nd.db, before |-> store, result |-> r.content]]

\* The record of a service call made directly, with the value it returned.
ServiceCall(name, u, fails, returned) ==
    [name |-> name, user_id |-> u, args |-> [valid |-> TRUE],
     nd |-> IF fails THEN {1} ELSE {}, before |-> store, result |-> Dumps(returned)]

AddCall(product, q) ==
    [name |-> "add_to_cart_tool",
     args |-> [valid |-> TRUE, product_id |-> product, quantity |-> q]]
\* action: str of show_cart_tool (tools.py 237-244)
CartActions == {"view", "checkout"}
ShowCall(action) ==
    [name |-> "show_cart_tool", args |-> [valid |-> TRUE, action |-> action]]
CollectCall(c) == [name |-> "collect_user_info_tool", args |-> CollectPool[c]]
PaymentCall == [name |-> "process_payment_tool", args |-> PaymentArgs]

OpAddToCart ==
    /\ n_ops < MaxOps
    /\ \E product \in Products, q \in Quantities, u \in Sessions :
       \E nd \in NdOf(AddCall(product, q), db) :
          /\ store' = ToolRun(AddCall(product, q), u, nd).store
          /\ op' = ToolRun(AddCall(product, q), u, nd).op
    /\ n_ops' = n_ops + 1
    /\ UNCHANGED <<runVars, chainVars, chatVars, request, invocation, threads, db, n_requests>>

OpShowCart ==
    /\ n_ops < MaxOps
    /\ \E u \in Sessions, action \in CartActions :
       \E nd \in NdOf(ShowCall(action), db) :
          /\ store' = ToolRun(ShowCall(action), u, nd).store
          /\ op' = ToolRun(ShowCall(action), u, nd).op
    /\ n_ops' = n_ops + 1
    /\ UNCHANGED <<runVars, chainVars, chatVars, request, invocation, threads, db, n_requests>>

OpCollectUserInfo ==
    /\ n_ops < MaxOps
    /\ \E c \in DOMAIN CollectPool, u \in Sessions :
       \E nd \in NdOf(CollectCall(c), db) :
          /\ store' = ToolRun(CollectCall(c), u, nd).store
          /\ op' = ToolRun(CollectCall(c), u, nd).op
    /\ n_ops' = n_ops + 1
    /\ UNCHANGED <<runVars, chainVars, chatVars, request, invocation, threads, db, n_requests>>

OpProcessPayment ==
    /\ n_ops < MaxOps
    /\ \E u \in Sessions, nd \in NdOf(PaymentCall, db) :
          /\ store' = ToolRun(PaymentCall, u, nd).store
          /\ op' = ToolRun(PaymentCall, u, nd).op
    /\ n_ops' = n_ops + 1
    /\ UNCHANGED <<runVars, chainVars, chatVars, request, invocation, threads, db, n_requests>>

\* UserService.get_user called directly (no tool calls it).
OpGetUser ==
    /\ n_ops < MaxOps
    /\ \E u \in Sessions, fails \in BOOLEAN :
          /\ fails => db
          /\ op' = ServiceCall("get_user", u, fails, UserJson(GetUser(store, db, u, fails)))
    /\ n_ops' = n_ops + 1
    /\ UNCHANGED <<runVars, chainVars, chatVars, request, invocation, threads, db, n_requests, store>>

\* CartService.clear_cart called directly.
OpClearCart ==
    /\ n_ops < MaxOps
    /\ \E u \in Sessions, fails \in BOOLEAN :
          /\ fails => db
          /\ store' = ClearCart(store, db, u, fails)
          /\ op' = ServiceCall("clear_cart", u, fails, JTrue)
    /\ n_ops' = n_ops + 1
    /\ UNCHANGED <<runVars, chainVars, chatVars, request, invocation, threads, db, n_requests>>

NextStore ==
    \/ OpAddToCart \/ OpShowCart \/ OpCollectUserInfo \/ OpProcessPayment
    \/ OpGetUser \/ OpClearCart
SpecStore == InitStore /\ [][NextStore]_vars

(***************************************************************************)
(* Properties of the resolution.                                           *)
(***************************************************************************)
(* One tools step whose calls are all add_to_cart_tool.  The tools node     *)
(* awaits the coroutines of the calls of one AIMessage together            *)
(* (agent_rotation.py 153), so they interleave at the awaits of            *)
(* CartService.add_to_cart (cart_service.py 41-84): the find_one, then the *)
(* update_one or insert_one.  Without a database the body has no await.    *)
(***************************************************************************)
MaxTasks == 2

\* What may go wrong in a task's database calls: nothing, the find_one raises,
\* or the write raises.
TaskFaults == {"none", "find", "write"}

\* A cart document some earlier request left in the database.
EarlierCart == [present |-> TRUE, items |-> <<[id |-> "p1", quantity |-> 1]>>]

Task(u, product, fault) ==
    [user_id |-> u, item |-> [id |-> product, quantity |-> 1], fault |-> fault,
     pc |-> "start", existing_cart |-> NoCartDoc]

InitRace ==
    /\ db \in BOOLEAN
    /\ \E u \in Sessions, doc \in {NoCartDoc, EarlierCart} :
          store = [EmptyStore EXCEPT !.carts[u] = IF db THEN doc ELSE NoCartDoc]
    /\ \E us \in [1..MaxTasks -> Sessions], ps \in [1..MaxTasks -> Products],
          fs \in [1..MaxTasks -> TaskFaults] :
          /\ ~db => \A t \in 1..MaxTasks : fs[t] = "none"
          /\ tasks = [t \in 1..MaxTasks |-> Task(us[t], ps[t], fs[t])]
    /\ op = [NoOp EXCEPT !.name = "tools", !.before = store]
    /\ n_ops = 0
    /\ llm_input = <<>>
    /\ tools_nd = <<>>
    /\ request = NoRequest
    /\ invocation = NoInvocation
    /\ threads = [u \in Sessions |-> <<>>]
    /\ n_requests = 0
    /\ env = [s \in Slots |-> ""]
    /\ ctor_failed = {}
    /\ llm_instances = <<>>
    /\ build = "ready"
    /\ messages = <<>>
    /\ tentative = NoTentative
    /\ response = NoResponse
    /\ stage = "tools"

\* add_to_cart up to its first await (cart_service.py 41-44), or to its end when
\* there is none: without a database, or when the find_one raises, the item goes
\* to the volatile cart (74-84).
TaskFind ==
    \E t \in DOMAIN tasks :
        /\ tasks[t].pc = "start"
        /\ IF db /\ tasks[t].fault # "find"
           THEN /\ tasks' = [tasks EXCEPT ![t].pc = "found",
                                          ![t].existing_cart = store.carts[tasks[t].user_id]]
                /\ UNCHANGED store
           ELSE /\ tasks' = [tasks EXCEPT ![t].pc = "done"]
                /\ store' = AddToCart(store, db, tasks[t].user_id, tasks[t].item, TRUE)
        /\ UNCHANGED <<opVars, llm_input, tools_nd, chainVars, chatVars, request, invocation, threads, db,
                       n_requests>>

\* add_to_cart from the find_one's answer on (cart_service.py 45-71): the items
\* read are merged with the item and written back, or a document is inserted;
\* when the write raises the item goes to the volatile cart.  An insert_one
\* beside a document another task inserted leaves two documents for the user,
\* and which one a later find_one returns is not fixed.
TaskWrite ==
    \E t \in DOMAIN tasks :
        LET u == tasks[t].user_id
            existing_cart == tasks[t].existing_cart
            inserted == [present |-> TRUE, items |-> <<tasks[t].item>>]
        IN  /\ tasks[t].pc = "found"
            /\ tasks' = [tasks EXCEPT ![t].pc = "done"]
            /\ IF tasks[t].fault = "write"
               THEN store' = AddToCart(store, db, u, tasks[t].item, TRUE)
               ELSE IF existing_cart.present
               THEN store' = [store EXCEPT !.carts[u] =
                        [present |-> TRUE,
                         items |-> MergeItem(existing_cart.items, tasks[t].item)]]
               ELSE \E doc \in (IF store.carts[u].present
                                THEN {store.carts[u], inserted} ELSE {inserted}) :
                        store' = [store EXCEPT !.carts[u] = doc]
            /\ UNCHANGED <<opVars, llm_input, tools_nd, chainVars, chatVars, request, invocation, threads, db,
                       n_requests>>

NextRace == TaskFind \/ TaskWrite
SpecRace == InitRace /\ [][NextRace]_vars

(***************************************************************************)
Max(S) == CHOOSE x \in S : \A y \in S : y <= x

\* The table of the resolution engine: tool name -> ui_action.
UiActionTable ==
    [product_search_tool |-> "RENDER_PRODUCTS", show_cart_tool |-> "RENDER_CART",
     collect_user_info_tool |-> "REQUEST_INFO", process_payment_tool |-> "RENDER_PAYMENT"]

\* Positions, among all tool calls of the transcript, of the calls the table knows.
TableCalls == {i \in 1..NumCalls : AllToolCalls(messages)[i].name \in DOMAIN UiActionTable}

\* C1: when the transcript holds a call of product_search, view_cart,
\* collect_user_info or process_payment, the directive's ui_action is the one the
\* table gives the last such call, whatever the final JSON declared.
C1_LastToolCallWins ==
    (stage = "resolved" /\ response.status = 200 /\ TableCalls # {}) =>
        response.ui_action =
            Lit(UiActionTable[AllToolCalls(messages)[Max(TableCalls)].name])

\* Two different table tools were called, the final JSON declared the action of
\* the earlier one, and the directive carries the action of the later one.
C1_Witness ==
    /\ stage = "resolved" /\ response.status = 200
    /\ \E i \in TableCalls :
          /\ i < Max(TableCalls)
          /\ AllToolCalls(messages)[i].name = "show_cart_tool"
          /\ AllToolCalls(messages)[Max(TableCalls)].name = "process_payment_tool"
    /\ tentative.ui_action_type = Lit("RENDER_CART")
    /\ response.ui_action = Lit("RENDER_PAYMENT")

\* Positions of the tool results that answer a call of a data-bearing tool.
DataTools == {"product_search_tool", "show_cart_tool", "process_payment_tool"}
ResultTool(i) == MapGet(ToolCallsMap(AllToolCalls(messages)), messages[i].tool_call_id)
DataResults ==
    {i \in 1..Len(messages) : messages[i].role = "tool" /\ ResultTool(i) \in DataTools}
\* The item list of a payload, when it has one.
HasItemList(payload) == payload.t = "dict" /\ "items" \in DOMAIN payload.v
ItemList(payload) == IF HasItemList(payload) THEN payload.v["items"] ELSE JAbsent
\* What a tool result contributes: the item list for product_search, the whole
\* payload for view_cart and process_payment.
Contribution(i) ==
    IF ResultTool(i) = "product_search_tool" THEN ItemList(Decode(messages[i].content))
    ELSE Decode(messages[i].content)

\* C2 as stated: data comes from the last tool result of a data-bearing tool.
C2_LastResultIsData ==
    (stage = "resolved" /\ response.status = 200 /\ DataResults # {}) =>
        response.data = Contribution(Max(DataResults))

\* Tool results that determine data: every view_cart and process_payment result,
\* and the product_search results that decode to an object with an item list.
EffectiveResults ==
    {i \in DataResults :
        ResultTool(i) = "product_search_tool" => HasItemList(Decode(messages[i].content))}

\* C2, amended: data comes from the last tool result of a data-bearing tool, a
\* product_search result counting only when it is an object with an item list;
\* it overwrites the data of pass 1 and of every earlier tool result.
C2_LastEffectiveResultIsData ==
    (stage = "resolved" /\ response.status = 200 /\ EffectiveResults # {}) =>
        response.data = Contribution(Max(EffectiveResults))

\* Pass 1 contributed data, an earlier view_cart result carried a payload, and the
\* directive's data is the item list of the later product_search result.
C2_Witness ==
    /\ stage = "resolved" /\ response.status = 200
    /\ tentative.ui_data # JNull
    /\ \E i \in EffectiveResults :
          /\ i < Max(EffectiveResults)
          /\ ResultTool(i) = "show_cart_tool"
          /\ ResultTool(Max(EffectiveResults)) = "product_search_tool"
          /\ Contribution(i) # Contribution(Max(EffectiveResults))
    /\ response.data = JList(<<Lit("p1"), Lit("p2")>>)

\* The final answer of the request under resolution.
FinalText == LastContent(messages)
Unparseable == ~JsonLoadsOk(CleanedOutput(FinalText))

\* C3: an unparseable final answer in a transcript without tool calls gives the
\* raw text as message, ui_action NONE and no data, and no error.
C3_RawTextFallback ==
    (stage = "resolved" /\ Unparseable /\ NumCalls = 0) =>
        response = [status |-> 200, message |-> JStr(FinalText),
                    ui_action |-> Lit("NONE"), data |-> JNull]

\* An unparseable answer that holds a JSON document after some prose.
C3_Witness ==
    /\ stage = "resolved" /\ Unparseable /\ NumCalls = 0
    /\ Len(FinalText) >= 2 /\ FinalText[1] = Word("hello")
    /\ \E i \in 2..Len(FinalText) : FinalText[i].k = "doc"
    /\ response.status = 200 /\ response.message = JStr(FinalText)

\* The object the final answer parses to, or JAbsent when it parses to none.
ParsedObject ==
    IF Unparseable THEN JAbsent
    ELSE LET j == JsonLoads(CleanedOutput(FinalText)) IN
         IF j.t = "dict" THEN j ELSE JAbsent
Field(obj, k) == IF k \in DOMAIN obj.v THEN obj.v[k] ELSE JAbsent
\* An empty value: null, or a string, list or object without content.
IsEmpty(j) ==
    \/ j.t = "null"
    \/ j.t \in {"str", "list"} /\ j.v = <<>>
    \/ j.t = "dict" /\ DOMAIN j.v = {}

\* C4: when the final answer parses as an object, pass 1 takes its message when
\* present, its ui_action when present and not "NONE", its data when present and
\* not empty, and leaves the raw text, NONE and null otherwise.
C4_Pass1Fields ==
    (stage = "resolved" /\ ParsedObject # JAbsent) =>
        LET message == Field(ParsedObject, "message")
            ui_action == Field(ParsedObject, "ui_action")
            data == Field(ParsedObject, "data")
        IN  /\ tentative.agent_output =
                   IF message # JAbsent THEN message ELSE JStr(FinalText)
            /\ tentative.ui_action_type =
                   IF ui_action # JAbsent /\ ui_action # Lit("NONE")
                   THEN ui_action ELSE Lit("NONE")
            /\ tentative.ui_data =
                   IF data # JAbsent /\ ~IsEmpty(data) THEN data ELSE JNull

\* A fenced answer whose object declares NONE and empty data and has no message.
C4_Witness ==
    /\ stage = "resolved" /\ ParsedObject # JAbsent
    /\ StartsWithFenceJson(FinalText)
    /\ Field(ParsedObject, "message") = JAbsent
    /\ Field(ParsedObject, "ui_action") = Lit("NONE")
    /\ Field(ParsedObject, "data") = JDict(<<>>)
    /\ tentative = [agent_output |-> JStr(FinalText), ui_action_type |-> Lit("NONE"),
                    ui_data |-> JNull]

(***************************************************************************)
(* Properties of the chat endpoint.                                        *)
(***************************************************************************)
\* The ui_action values of the directive's enum.
UiActionEnum ==
    {Lit("NONE"), Lit("RENDER_PRODUCTS"), Lit("RENDER_CART"), Lit("REQUEST_INFO"),
     Lit("RENDER_PAYMENT")}

\* The request's message has no character other than whitespace.
AllWhitespace(message) == \A i \in DOMAIN message : message[i].k = "ws"

\* Every handle of the chain was called by the last invocation and failed.
AllHandlesFailed ==
    /\ Len(invocation) = Len(llm_instances)
    /\ invocation # NoInvocation
    /\ \A i \in DOMAIN invocation : ~invocation[i].ok

\* C5 as stated: a request with a non-empty message, answered by a chain in which
\* a handle succeeds, gets a directive whose message is a non-empty string and
\* whose ui_action is one of the enum.
C5_DirectiveWellFormed ==
    stage = "resolved" =>
        /\ response.status = 200
        /\ response.message.t = "str" /\ response.message.v # <<>>
        /\ response.ui_action \in UiActionEnum

\* C6 as stated: a request ends in an error only when its message is blank or
\* when every handle of the chain failed (the loop of this model always converges).
C6_ErrorsOnlyInThreeCases ==
    response.status >= 400 =>
        \/ response.status = 400 /\ AllWhitespace(request.message)
        \/ response.status = 500 /\ AllHandlesFailed

\* C7: a request whose message is empty or only whitespace is answered with the
\* validation error at once, no handle and no tool is invoked for it, and the
\* transcripts, the carts and the profiles are left as they were.
C7_BlankRejected ==
    [][(n_requests' = n_requests + 1 /\ AllWhitespace(request'.message)) =>
          /\ response' = HttpError(400)
          /\ stage' = "rejected"
          /\ invocation' = NoInvocation
          /\ threads' = threads
          /\ store' = store]_vars

\* A whitespace-only message was rejected in a session that has a transcript and
\* a cart from an earlier request.
C7_Witness ==
    /\ stage = "rejected" /\ response = HttpError(400)
    /\ request.message = <<Ws>>
    /\ threads[thread_id(request.session_id)] # <<>>
    /\ store # EmptyStore

\* C8: an invocation calls the handles in chain order, each one only after all
\* handles before it failed and none twice; it stops at the first success, whose
\* output is what the agent step appends, and no failure reaches the caller.
C8_FirstSuccessWins ==
    invocation # NoInvocation =>
        /\ Len(invocation) <= Len(llm_instances)
        /\ \A i \in DOMAIN invocation :
              /\ invocation[i].handle = llm_instances[i]
              /\ i < Len(invocation) => ~invocation[i].ok
        /\ invocation[Len(invocation)].ok =>
              /\ stage \in {"tools", "end", "resolved"}
              /\ \E i \in DOMAIN messages :
                    /\ messages[i].role = "ai"
                    /\ \A j \in (i + 1)..Len(messages) : messages[j].role # "ai"
                    /\ stage = "tools" <=> messages[i].tool_calls # <<>>

\* The first two handles of a chain of three failed, the third answered with tool
\* calls and the loop goes on.
C8_Witness ==
    /\ Len(llm_instances) = 3 /\ Len(invocation) = 3
    /\ ~invocation[1].ok /\ ~invocation[2].ok /\ invocation[3].ok
    /\ invocation[3].handle = llm_instances[3]
    /\ stage = "tools"
    /\ messages[Len(messages)].tool_calls # <<>>

\* C9: when every handle of the chain failed in an agent step, the request ends
\* with the 500 error and no directive is returned for it.
C9_ExhaustionFailsRequest ==
    AllHandlesFailed => stage = "failed" /\ response = HttpError(500)

\* All three handles failed in the agent step that follows a tools step.
C9_Witness ==
    /\ AllHandlesFailed /\ Len(llm_instances) = 3
    /\ stage = "failed" /\ response.status = 500
    /\ messages # <<>> /\ messages[Len(messages)].role = "tool"

(***************************************************************************)
(* Properties of the chain builder.                                        *)
(***************************************************************************)
KindRank(kind) == CHOOSE i \in DOMAIN Kinds : Kinds[i] = kind
\* The keys of the handles of one kind in the chain.
ChainKeys(kind) ==
    {llm_instances[i].key : i \in {j \in DOMAIN llm_instances : llm_instances[j].kind = kind}}
\* At most one handle per kind and key.
NoDuplicateHandle ==
    \A i, j \in DOMAIN llm_instances : llm_instances[i] = llm_instances[j] => i = j
\* Every handle of a higher-priority kind precedes every handle of a lower one.
PriorityOrder ==
    \A i, j \in DOMAIN llm_instances :
        KindRank(llm_instances[i].kind) < KindRank(llm_instances[j].kind) => i < j
NoCredential == \A k \in DOMAIN Kinds : KeysOf(env, Kinds[k]) = {}

\* C10 as stated: the chain holds exactly one handle per distinct credential of
\* each kind, in priority order, and the build fails without any credential.
C10_OneHandlePerCredential ==
    build # "start" =>
        /\ \A k \in DOMAIN Kinds : ChainKeys(Kinds[k]) = KeysOf(env, Kinds[k])
        /\ NoDuplicateHandle
        /\ PriorityOrder
        /\ NoCredential => build = "failed"

\* The credentials of a kind whose handle could be constructed.
BuiltKeys(kind) == {key \in KeysOf(env, kind) : Handle(kind, key) \notin ctor_failed}

\* C10, amended: the chain holds exactly one handle per distinct credential whose
\* handle could be constructed, in priority order; the build fails exactly when
\* no handle was constructed, which includes the case of no credential at all.
C10_OneHandlePerBuiltCredential ==
    build # "start" =>
        /\ \A k \in DOMAIN Kinds : ChainKeys(Kinds[k]) = BuiltKeys(Kinds[k])
        /\ NoDuplicateHandle
        /\ PriorityOrder
        /\ build = "failed" <=> llm_instances = <<>>
        /\ NoCredential => build = "failed"

\* One credential sits in two slots of a kind, a handle of another kind could not
\* be constructed, and the chain still spans two kinds.
C10_Witness ==
    /\ build = "ready"
    /\ \E s1, s2 \in SlotsOf("mistral") : s1 # s2 /\ env[s1] = env[s2] /\ env[s1] # ""
    /\ Cardinality(ChainKeys("mistral")) = 1
    /\ Cardinality(KeysOf(env, "google")) = 2 /\ Cardinality(ChainKeys("google")) = 1
    /\ ChainKeys("openai") # {}
    /\ ctor_failed # {}

(***************************************************************************)
(* Properties of the session store.                                        *)
(***************************************************************************)
\* Positions of the items of a product in a cart, and the product's quantity.
ItemsOf(items, id) == {k \in DOMAIN items : items[k].id = id}
QtyIn(items, id) ==
    IF ItemsOf(items, id) = {} THEN 0
    ELSE items[CHOOSE k \in ItemsOf(items, id) : TRUE].quantity

\* The last operation was this tool or service call.
Did(name) == op.name = name
\* The call(s) of the last operation to the database did not succeed: it is not
\* connected, or the call at this position raised.
Unavailable(pos) == ~db \/ pos \in op.nd
\* The decoded result of the last operation.
OpResult == Decode(op.result)

\* C11: an add_to_cart that finds the durable backend unavailable leaves, in the
\* session's volatile cart, exactly one item of the product, whose quantity is
\* the quantity it had before (0 when it was not there) plus the quantity added;
\* the other products' items are as before and the call reports success.
C11_FallbackAddsMerge ==
    (Did("add_to_cart_tool") /\ Unavailable(1)) =>
        LET before == op.before.in_memory_carts[op.user_id]
            after == store.in_memory_carts[op.user_id]
        IN  /\ Cardinality(ItemsOf(after, op.args.product_id)) = 1
            /\ QtyIn(after, op.args.product_id) =
                   QtyIn(before, op.args.product_id) + op.args.quantity
            /\ \A other \in Products \ {op.args.product_id} :
                   /\ Cardinality(ItemsOf(after, other)) = Cardinality(ItemsOf(before, other))
                   /\ QtyIn(after, other) = QtyIn(before, other)
            /\ OpResult.v["success"] = JTrue

\* Without a database, the second of two adds of quantity 1 of one product for
\* one session: the cart is one item of quantity 2.
C11_Witness ==
    /\ ~db /\ n_ops = 2 /\ Did("add_to_cart_tool")
    /\ op.args.quantity = 1
    /\ op.before.in_memory_carts[op.user_id] = <<[id |-> op.args.product_id, quantity |-> 1]>>
    /\ store.in_memory_carts[op.user_id] = <<[id |-> op.args.product_id, quantity |-> 2]>>

\* C12: the cart get_cart returns for a session, whether its find_one succeeds or
\* raises, never holds two items of one product.
C12_OneItemPerProduct ==
    \A u \in Sessions, fails \in BOOLEAN, id \in Products :
        Cardinality(ItemsOf(GetCart(store, db, u, fails), id)) <= 1

\* A session has two products in its database cart, one of them added twice, and
\* an item in its volatile cart from an add that found the database failing.
C12_Witness ==
    \E u \in Sessions :
        /\ db
        /\ Len(GetCart(store, db, u, FALSE)) = 2
        /\ \E id \in Products : QtyIn(GetCart(store, db, u, FALSE), id) = 2
        /\ GetCart(store, db, u, TRUE) # <<>>

\* C13 as stated: every item of every cart has quantity >= 1.
C13_QuantityAtLeastOne ==
    \A u \in Sessions, fails \in BOOLEAN :
        LET items == GetCart(store, db, u, fails)
        IN  \A k \in DOMAIN items : items[k].quantity >= 1

\* The last operation made a database call that raised.
Failed(pos) == db /\ pos \in op.nd
\* collect_user_info_tool was given a value it accepts.
Accepted ==
    /\ op.args.field = "first_name" => Len(op.args.value) >= MinFirstName
    /\ op.args.field = "phone" => Len(op.args.value) >= MinPhone

\* C14: an operation whose database call raised returns what it returns without
\* the database: the caller sees no error, a failed write is applied to the
\* session's volatile cart or profile and leaves the database as it was, and a
\* failed read is answered from the volatile map.
C14_FailureFallsBack ==
    LET u == op.user_id IN
    /\ (Did("add_to_cart_tool") /\ Failed(1)) =>
            /\ OpResult.v["success"] = JTrue
            /\ store.in_memory_carts[u] =
                   MergeItem(op.before.in_memory_carts[u],
                             [id |-> op.args.product_id, quantity |-> op.args.quantity])
            /\ store.carts = op.before.carts
    /\ (Did("clear_cart") /\ Failed(1)) =>
            /\ OpResult = JTrue
            /\ store.in_memory_carts[u] = <<>>
            /\ store.carts = op.before.carts
    /\ (Did("collect_user_info_tool") /\ Failed(1) /\ Accepted) =>
            /\ OpResult.v["success"] = JTrue
            /\ store.in_memory_users[u].present
            /\ store.in_memory_users[u].fields[op.args.field] = JStr(op.args.value)
            /\ store.user = op.before.user
    /\ (Did("show_cart_tool") /\ Failed(1)) =>
            /\ OpResult.v["showCart"] = JTrue
            /\ OpResult.v["items"] = JList(ItemsJson(store.in_memory_carts[u]))
    /\ (Did("get_user") /\ Failed(1)) =>
            OpResult = UserJson(store.in_memory_users[u])
    /\ (Did("process_payment_tool") /\ Failed(1) /\ Failed(2)) =>
            /\ "success" \in DOMAIN OpResult.v
            /\ store.in_memory_users[u].fields["first_name"] = JStr(op.args.first_name)
            /\ store.in_memory_users[u].fields["phone"] = JStr(op.args.phone)
            /\ store.user = op.before.user

\* A phone number was collected while the database call raised, for a session
\* whose database profile already holds a first name: the number is in the
\* volatile profile and the database profile is as before.
C14_Witness ==
    /\ Did("collect_user_info_tool") /\ Failed(1) /\ op.args.field = "phone"
    /\ store.user[op.user_id].present
    /\ store.user[op.user_id].fields["first_name"] # JAbsent
    /\ store.user[op.user_id].fields["phone"] = JAbsent
    /\ store.in_memory_users[op.user_id].fields["phone"] = JStr(op.args.value)
    /\ OpResult.v["success"] = JTrue

\* The profile field as the layer holds it that a save with this outcome wrote.
WrittenField(u, field, pos) ==
    IF Unavailable(pos) THEN store.in_memory_users[u].fields[field]
    ELSE store.user[u].fields[field]

\* C15: process_payment for a session whose cart is empty returns a failure
\* result, leaves every cart as it was (the session's still empty), and changes,
\* of all profiles, only first_name and phone of the session, which are written
\* with the values supplied.
C15_PaymentOnEmptyCart ==
    (Did("process_payment_tool") /\ GetCart(op.before, db, op.user_id, FALSE) = <<>>) =>
        LET u == op.user_id IN
        /\ OpResult.v["success"] = JFalse
        /\ \A fails \in BOOLEAN : GetCart(store, db, u, fails) = <<>>
        /\ store.carts = op.before.carts
        /\ store.in_memory_carts = op.before.in_memory_carts
        /\ \A v \in Sessions, f \in StoredFields :
               (v # u \/ f \notin {"first_name", "phone"}) =>
                   /\ store.user[v].fields[f] = op.before.user[v].fields[f]
                   /\ store.in_memory_users[v].fields[f] = op.before.in_memory_users[v].fields[f]
        /\ WrittenField(u, "first_name", 1) = JStr(op.args.first_name)
        /\ WrittenField(u, "phone", 2) = JStr(op.args.phone)

\* The third operation is a payment on an empty cart, for a session whose profile
\* already held an email address or a field of another name.
C15_Witness ==
    /\ Did("process_payment_tool") /\ GetCart(op.before, db, op.user_id, FALSE) = <<>>
    /\ OpResult = PaymentEmpty
    /\ \E f \in {"email", "address"} : WrittenField(op.user_id, f, 1) # JAbsent
    /\ WrittenField(op.user_id, "phone", 2) = JStr(op.args.phone)
    /\ n_ops = 3

\* C16 as stated, for the store: after a process_payment that returned a success
\* result, none of its database calls raising, the cart that a view_cart gets for
\* the session is empty.
C16_CartEmptyAfterPayment ==
    (Did("process_payment_tool") /\ OpResult.v["success"] = JTrue /\ op.nd = {}) =>
        GetCart(store, db, op.user_id, FALSE) = <<>>

\* C17 as stated: collect_user_info persists the value only when the field is
\* first_name, phone or email and the value passes validation; any other call
\* returns a failure result and leaves the store as it was.
C17_CollectValidates ==
    (Did("collect_user_info_tool") /\ ~(op.args.field \in ProfileFields /\ Accepted)) =>
        /\ OpResult.v["success"] = JFalse
        /\ store = op.before

\* C18 as stated: after a field was saved for a session, get_user returns a
\* profile that holds the value saved and, for every other field, what it held
\* before.
C18_SaveKeepsOtherFields ==
    (Did("collect_user_info_tool") /\ Accepted) =>
        LET before == GetUser(op.before, db, op.user_id, FALSE)
            after == GetUser(store, db, op.user_id, FALSE)
        IN  /\ after.present
            /\ after.fields[op.args.field] = JStr(op.args.value)
            /\ \A g \in StoredFields \ {op.args.field} : after.fields[g] = before.fields[g]

(***************************************************************************)
(* Properties of the agent loop.                                           *)
(***************************************************************************)
\* The output an agent step appended to the transcript.
Appended == messages'[Len(messages')]
IsPrefix(s, t) == Len(s) <= Len(t) /\ \A i \in DOMAIN s : s[i] = t[i]

\* C19: an agent step that got an output appends it and goes to the tools step
\* exactly when the output carries a tool call, and to the end otherwise; a tools
\* step is always followed by an agent step; the tools step and the end are
\* entered from an agent step only, the end only with an output without tool calls.
C19_LoopTransitions ==
    [][/\ (stage = "agent" /\ stage' # "failed") =>
              /\ messages' = Append(messages, Appended)
              /\ Appended.role = "ai"
              /\ stage' = "tools" <=> Appended.tool_calls # <<>>
              /\ stage' = "end" <=> Appended.tool_calls = <<>>
       /\ (stage = "agent" /\ stage' = "failed") => messages' = messages
       /\ stage = "tools" => stage' = "agent"
       /\ stage' \in {"tools", "end"} => stage = "agent"
       /\ stage' = "agent" => stage = "tools" \/ Idle]_vars

\* Positions of the AIMessages of the transcript that carry tool calls.
ToolTurns == {i \in DOMAIN messages : messages[i].role = "ai" /\ messages[i].tool_calls # <<>>}

\* A loop run that went twice through the tools step has ended.
C19_Witness ==
    /\ stage = "end" /\ n_requests = 1
    /\ Cardinality(ToolTurns) = 2
    /\ messages[Len(messages)].role = "ai" /\ messages[Len(messages)].tool_calls = <<>>

\* Positions of the tool results carrying the id of a call.
AnswersTo(msgs, id) == {j \in DOMAIN msgs : msgs[j].role = "tool" /\ msgs[j].tool_call_id = id}
\* Every tool call of the transcript has exactly one result, after it, and every
\* tool result answers a call before it.
Paired(msgs) ==
    /\ \A i \in DOMAIN msgs : \A k \in DOMAIN msgs[i].tool_calls :
           /\ Cardinality(AnswersTo(msgs, msgs[i].tool_calls[k].id)) = 1
           /\ \A j \in AnswersTo(msgs, msgs[i].tool_calls[k].id) : j > i
    /\ \A j \in DOMAIN msgs : msgs[j].role = "tool" =>
           \E i \in 1..(j - 1) : \E k \in DOMAIN msgs[i].tool_calls :
               msgs[i].tool_calls[k].id = msgs[j].tool_call_id

\* C20: whenever an agent step starts and when the loop has ended, every tool
\* call of the transcript is answered by exactly one tool result with its id and
\* every tool result answers an earlier call; a step of the loop only appends to
\* the transcript.
C20_CallsAndResultsPaired ==
    [][/\ stage' # "tools" => Paired(messages')
       /\ stage \in {"agent", "tools"} => IsPrefix(messages, messages')]_vars

\* The loop ended after an agent step that asked for two tools at once, in the
\* second request of a session.
C20_Witness ==
    /\ stage = "end" /\ n_requests = 2
    /\ \E i \in ToolTurns : Len(messages[i].tool_calls) = 2
    /\ Cardinality({j \in DOMAIN messages : messages[j].role = "tool"}) = 2
    /\ Cardinality({j \in DOMAIN messages : messages[j].role = "human"}) = 2
    /\ Paired(messages)

\* The thread a request is served under, and the rows of the store under a key.
Thread == thread_id(request'.session_id)
Rows(S, u) == <<S.carts[u], S.in_memory_carts[u], S.user[u], S.in_memory_users[u]>>
AgentStep == llm_input' # <<>> /\ llm_input' # llm_input

\* C22: the model input of every agent step is the whole transcript of the
\* request's session, every message of its earlier requests in order and then the
\* new user message, and a request changes the transcript of no other session id.
C22_SessionContinuity ==
    [][/\ \A u \in Sessions : IsPrefix(threads[u], threads'[u])
       /\ (stage' = "agent" /\ n_requests' # n_requests) =>
              threads'[Thread] = Append(threads[Thread], HumanMessage(request'.message))
       /\ AgentStep => \E m \in {<<>>, <<SystemMessage>>} : llm_input' = m \o threads[Thread]
       /\ \A s \in SessionIds \ {request'.session_id} :
              threads'[thread_id(s)] = threads[thread_id(s)]]_vars

\* C22 (amended): as C22, a missing or empty session id being the session id
\* "default": a request changes the transcript of no other thread.
C22_ThreadContinuity ==
    [][/\ \A u \in Sessions : IsPrefix(threads[u], threads'[u])
       /\ (stage' = "agent" /\ n_requests' # n_requests) =>
              threads'[Thread] = Append(threads[Thread], HumanMessage(request'.message))
       /\ AgentStep => \E m \in {<<>>, <<SystemMessage>>} : llm_input' = m \o threads[Thread]
       /\ \A u \in Sessions \ {Thread} : threads'[u] = threads[u]]_vars

\* The second request of a session is at the model, the first one in its input.
C22_Witness ==
    /\ n_requests = 2
    /\ Len(llm_input) >= 4
    /\ llm_input[2].role = "human"
    /\ llm_input[Len(llm_input)].role = "human"

SystemAt(msgs) == {i \in DOMAIN msgs : msgs[i].role = "system"}

\* C23: the model input of every agent step starts with a system instruction and
\* holds no other one.
C23_OneSystemInstruction ==
    llm_input # <<>> => SystemAt(llm_input) = {1} /\ llm_input[1] = SystemMessage

\* An agent step after a tools step, in the second request of a session.
C23_Witness ==
    /\ n_requests = 2
    /\ Len(llm_input) >= 4
    /\ llm_input[Len(llm_input)].role = "tool"
    /\ SystemAt(llm_input) = {1}

StepCalls == messages[Len(messages) - Len(tools_nd)].tool_calls
StepResult(i) == messages[Len(messages) - Len(tools_nd) + i]
SearchFailed(i) ==
    /\ StepCalls[i].args.valid
    /\ StepCalls[i].name = "product_search_tool"
    /\ tools_nd[i].api # "ok"
StoreFailed(i) ==
    /\ StepCalls[i].args.valid
    /\ StepCalls[i].name # "product_search_tool"
    /\ tools_nd[i].db # {}
ErrorSearch(d) ==
    /\ d.t = "dict"
    /\ HasKey(d, "items") /\ d.v["items"] = JList(<<>>)
    /\ HasKey(d, "productsSummary") /\ d.v["productsSummary"] = Lit("Error during search")
FailurePayload(d) ==
    \/ ErrorSearch(d)
    \/ d.t = "dict" /\ HasKey(d, "success") /\ d.v["success"] = JFalse
StepAnswered ==
    /\ stage = "agent"
    /\ Len(StepCalls) = Len(tools_nd)
    /\ \A i \in DOMAIN tools_nd :
          StepResult(i).role = "tool" /\ StepResult(i).tool_call_id = StepCalls[i].id

C25_ViewCartIsPureRead ==
    Did("show_cart_tool") =>
        /\ store = op.before
        /\ OpResult =
               CartResult(op.args.action,
                          ItemsJson(GetCart(store, db, op.user_id, Failed(1))))

\* A checkout view of a cart that holds an item.
C25_Witness ==
    /\ Did("show_cart_tool")
    /\ op.args.action = "checkout"
    /\ OpResult.v["items"] # JList(<<>>)

\* C28: after an add_to_cart of a quantity of at least one that reported success,
\* the cart get_cart returns, whether its find_one succeeds or raises, holds the
\* product, with the quantity a get_cart before the add would have returned
\* plus the quantity added.
C28_ReadYourWrites ==
    (Did("add_to_cart_tool") /\ op.args.quantity >= 1 /\ OpResult.v["success"] = JTrue) =>
        \A read_fails \in {f \in BOOLEAN : f => db} :
            LET after == GetCart(store, db, op.user_id, read_fails)
            IN  /\ ItemsOf(after, op.args.product_id) # {}
                /\ \E earlier_fails \in {f \in BOOLEAN : f => db} :
                       QtyIn(after, op.args.product_id) =
                           QtyIn(GetCart(op.before, db, op.user_id, earlier_fails),
                                 op.args.product_id) + op.args.quantity
\* C29: a request whose run called no tool and whose final answer declared no
\* ui_action and no data gets the ui_action NONE and no data, whatever the earlier
\* requests of its session did.
C29_DirectiveOfOwnRun ==
    (/\ stage = "resolved" /\ response.status = 200
     /\ Len(messages) >= 2 /\ messages[Len(messages) - 1].role = "human"
     /\ tentative.ui_action_type = Lit("NONE") /\ tentative.ui_data = JNull) =>
        response.ui_action = Lit("NONE") /\ response.data = JNull

\* The tool whose call gave the directive its ui_action.
ActionTool == AllToolCalls(messages)[Max(TableCalls)].name
ResultsOfTool(name) ==
    {i \in 1..Len(messages) : messages[i].role = "tool" /\ ResultTool(i) = name}

\* C30: when a call of product_search, view_cart or process_payment gave the
\* directive its ui_action, the data is what a result of that tool contributes
\* (the item list for product_search); when a call of collect_user_info gave it,
\* the data is not what a result of one of those three tools contributes.
C30_DataOfActionTool ==
    (stage = "resolved" /\ response.status = 200 /\ TableCalls # {}) =>
        IF ActionTool \in DataTools
        THEN \E i \in ResultsOfTool(ActionTool) : response.data = Contribution(i)
        ELSE \A i \in EffectiveResults : response.data # Contribution(i)
\* The store after the tasks of the step run one after the other in this order.
RECURSIVE Serial(_, _)
Serial(S, order) ==
    IF order = <<>> THEN S
    ELSE Serial(AddToCart(S, db, tasks[Head(order)].user_id, tasks[Head(order)].item,
                          tasks[Head(order)].fault # "none"),
                Tail(order))
AllDone == tasks # <<>> /\ \A t \in DOMAIN tasks : tasks[t].pc = "done"

\* C27: when the add_to_cart calls of a tools step have all returned, the store
\* is as one of the orders of running them one after the other leaves it.
C27_NoLostUpdate ==
    AllDone => \E order \in Perms(DOMAIN tasks) : store = Serial(op.before, order)
====
